---- MODULE Spec2Model ----
(***************************************************************************)
(* Model of e13ocrbot: the Token Refresher (refresh_qwen_token.py), the    *)
(* Credential Store file it shares with the Vision Relay, and the Relay's  *)
(* image handler (bot.py).                                                 *)
(*                                                                         *)
(* Tokens are numbered: 0 stands for a value Python treats as false (key   *)
(* missing, None or ""), n >= 1 for the n-th token the provider issued.    *)
(* Times are milliseconds; expiry_date 0 stands for a falsy expiry_date.   *)
(***************************************************************************)
EXTENDS Integers, Sequences, FiniteSets, TLC

VARIABLES
    store,      \* content of oauth_creds.json: [kind, creds]
    mode,       \* permission bits of oauth_creds.json
    now,        \* int(time.time() * 1000)
    rpc,        \* Token Refresher: position in main()
    creds,      \* Token Refresher: dict returned by load_creds()
    new_creds,  \* Token Refresher: dict built at main() lines 157-164
    exit_code,  \* Token Refresher: exit status of the last invocation
    run,        \* number of Token Refresher invocations started
    ticks,      \* number of clock advances so far
    issued,     \* number of access tokens the OAuth provider has issued
    obs,        \* observations of the current Refresher invocation
    latest,     \* access_token of the last credential written completely
    boot,       \* Relay: the store as bot.main() validated it at startup
    q,          \* Relay: the token reads of requests in flight, per request
    h,          \* Relay: the image handler's frame for the current event
    events      \* Relay: number of chat events received

storeVars == <<store, mode, latest>>
refVars == <<rpc, creds, new_creds, exit_code, run, issued, obs>>
relayVars == <<boot, q, h, events>>
vars ==
    <<store, mode, latest, now, ticks, rpc, creds, new_creds, exit_code,
      run, issued, obs, boot, q, h, events>>

----------------------------------------------------------------------------
(* Bounds *)

MaxRuns == 2
MaxTicks == 1
Now0 == 20000000

----------------------------------------------------------------------------
(* Credential Store *)

REFRESH_THRESHOLD_SEC == 7200

NoCreds ==
    [access_token |-> 0, token_type |-> "", refresh_token |-> 0,
     resource_url |-> "", expiry_date |-> 0]

\* A complete JSON object on disk.
JsonFile(c) == [kind |-> "json", creds |-> c]
\* No file at CREDS_PATH.
MissingFile == [kind |-> "missing", creds |-> NoCreds]
\* open(CREDS_PATH, "w") has truncated the file to zero bytes.
TruncatedFile == [kind |-> "empty", creds |-> NoCreds]
\* A full buffer was flushed: a proper prefix of the JSON text is on disk.
PartialFile == [kind |-> "partial", creds |-> NoCreds]
\* Bytes that are not JSON.
GarbageFile == [kind |-> "garbage", creds |-> NoCreds]

\* load_creds(): exits 1 when the file is absent; json.load raises
\* JSONDecodeError (uncaught, exit status 1) when the text is not JSON.
LoadCreds(file) ==
    IF file.kind = "missing" THEN [exc |-> "missing_file", creds |-> NoCreds]
    ELSE IF file.kind # "json" THEN [exc |-> "JSONDecodeError", creds |-> NoCreds]
    ELSE [exc |-> "", creds |-> file.creds]

\* remaining_sec <= REFRESH_THRESHOLD_SEC with remaining_sec = ms / 1000,
\* Python's true division: ms / 1000 <= sec exactly when ms <= sec * 1000.
RemainingFloorDivLeq(ms, sec) == (ms \div 1000) <= sec
RemainingSecLeq(ms, sec) == ms <= sec * 1000

\* token_needs_refresh(creds) evaluated at time t.
TokenNeedsRefresh(c, t) ==
    IF c.expiry_date = 0 THEN TRUE
    ELSE RemainingSecLeq(c.expiry_date - t, REFRESH_THRESHOLD_SEC)

----------------------------------------------------------------------------
(* OAuth token endpoint: what urlopen() can produce *)

BodyKeys ==
    {"status", "access_token", "refresh_token", "expires_in", "token_type",
     "resource_url"}

ExpiresIns == {3600, 7200, 7201, 21600}

\* The bodies tried: every key present, or exactly one key missing.
KeySets == {BodyKeys \ m : m \in {{}} \cup {{k} : k \in BodyKeys}}

Response(tr, code, ct, raw, keys, status, tok, exp) ==
    [transport |-> tr, code |-> code, content_type |-> ct, raw |-> raw,
     keys |-> keys, status |-> status, access_token |-> tok,
     refresh_token |-> tok, expires_in |-> exp, token_type |-> "JWT",
     resource_url |-> "chat.qwen.ai"]

NoResponse == Response("", 0, "", "", {}, "", 0, 0)

\* Responses to one token request when the provider's next token is tok.
Responses(tok) ==
    {Response("http_error", c, "application/json", "object", {}, "", 0, 0) :
        c \in {400, 401, 500}}
    \cup {Response("url_error", 0, "", "empty", {}, "", 0, 0)}
    \cup {Response("ok", 200, "text/html", r, {}, "", 0, 0) :
        r \in {"empty", "garbage"}}
    \cup {Response("ok", 200, "application/json", r, {}, "", 0, 0) :
        r \in {"empty", "garbage", "list"}}
    \cup {Response("ok", 200, "application/json", "object", k, s, tok, e) :
        k \in KeySets, s \in {"success", "error"}, e \in ExpiresIns}

\* refresh_token(): the branch taken for a response; "ok" returns the body.
RefreshTokenOutcomeNoStatus(resp) ==
    IF resp.transport = "http_error" THEN "HTTPError"
    ELSE IF resp.transport = "url_error" THEN "URLError"
    ELSE IF resp.content_type = "text/html" THEN "html"
    ELSE IF resp.raw = "empty" THEN "empty_body"
    ELSE IF resp.raw = "garbage" THEN "JSONDecodeError"
    ELSE IF resp.raw = "list" THEN "AttributeError"
    ELSE "ok"
RefreshTokenOutcome(resp) ==
    IF resp.transport = "http_error" THEN "HTTPError"
    ELSE IF resp.transport = "url_error" THEN "URLError"
    ELSE IF resp.content_type = "text/html" THEN "html"
    ELSE IF resp.raw = "empty" THEN "empty_body"
    ELSE IF resp.raw = "garbage" THEN "JSONDecodeError"
    ELSE IF resp.raw = "list" THEN "AttributeError"
    ELSE IF ~("status" \in resp.keys /\ resp.status = "success") THEN "bad_status"
    ELSE "ok"

\* main() lines 157-164: result[...] raises KeyError on a missing key.
RequiredKeys == {"access_token", "refresh_token", "expires_in"}

ExpiryInSeconds(t, expires_in) == t + expires_in
ExpiryDate(t, expires_in) == t + expires_in * 1000

BuildNewCreds(result, t) ==
    [access_token |-> result.access_token,
     token_type |-> IF "token_type" \in result.keys THEN result.token_type ELSE "Bearer",
     refresh_token |-> result.refresh_token,
     resource_url |-> IF "resource_url" \in result.keys THEN result.resource_url
                      ELSE "portal.qwen.ai",
     expiry_date |-> ExpiryDate(t, result.expires_in)]

----------------------------------------------------------------------------
(* Token Refresher *)

NewObs(prev, file, t, immediate) ==
    [store0 |-> file,            \* the store when the invocation began
     requests |-> 0,             \* token requests sent by this invocation
     writes |-> 0,               \* opens of the store for writing
     check |-> "none",           \* "none", "fresh" or "stale"
     tcheck |-> t,               \* now_ms of token_needs_refresh
     why |-> "",                 \* the failure that ended the invocation
     response |-> NoResponse,    \* the answer to this invocation's token request
     tread |-> t,                \* the clock value this invocation read last
     expires_in |-> 0,           \* expires_in of the accepted response
     immediate |-> immediate,    \* began with no time elapsed after a success
     prev_wrote |-> prev.writes > 0,
     prev_expires_in |-> prev.expires_in]

InitObs == NewObs([writes |-> 0, expires_in |-> 0], MissingFile, 0, FALSE)

\* sys.exit(code), or the interpreter ending on an uncaught exception (code 1).
Exit(code) ==
    /\ rpc' = "exited"
    /\ exit_code' = code

\* main() lines 140-145: load_creds() and token_needs_refresh().
RefresherMain ==
    /\ rpc \in {"idle", "exited"}
    /\ run < MaxRuns
    /\ run' = run + 1
    /\ LET ld == LoadCreds(store)
           o == NewObs(obs, store, now,
                       rpc = "exited" /\ exit_code = 0 /\ now = obs.tread)
           stale == TokenNeedsRefresh(ld.creds, now)
           o2 == [o EXCEPT !.check = IF stale THEN "stale" ELSE "fresh"]
       IN IF ld.exc # ""
          THEN /\ Exit(1)
               /\ obs' = [o EXCEPT !.why = ld.exc]
               /\ creds' = NoCreds
          ELSE /\ creds' = ld.creds
               /\ obs' = o2
               /\ IF stale
                  THEN /\ rpc' = "refresh"
                       /\ UNCHANGED exit_code
                  ELSE Exit(0)
    /\ UNCHANGED <<storeVars, relayVars, now, ticks, new_creds, issued>>

\* main() lines 147-154 up to the POST of refresh_token().
RefresherRequest ==
    /\ rpc = "refresh"
    /\ IF creds.refresh_token = 0
       THEN /\ Exit(1)
            /\ obs' = [obs EXCEPT !.why = "no_refresh_token"]
       ELSE /\ rpc' = "requesting"
            /\ obs' = [obs EXCEPT !.requests = @ + 1]
            /\ UNCHANGED exit_code
    /\ UNCHANGED <<storeVars, relayVars, now, ticks, creds, new_creds, run, issued>>

\* refresh_token() from urlopen's answer on, then main() lines 157-164.
RefresherResponse(resp) ==
    /\ rpc = "requesting"
    /\ LET out == RefreshTokenOutcome(resp)
           why == IF out # "ok" THEN out
                  ELSE IF ~(RequiredKeys \subseteq resp.keys) THEN "KeyError"
                  ELSE ""
       IN IF why # ""
          THEN /\ Exit(1)
               /\ obs' = [obs EXCEPT !.why = why, !.response = resp]
               /\ UNCHANGED <<new_creds, issued>>
          ELSE /\ new_creds' = BuildNewCreds(resp, now)
               /\ issued' = resp.access_token
               /\ rpc' = "save_open"
               /\ obs' = [obs EXCEPT !.tread = now,
                                     !.response = resp,
                                     !.expires_in = resp.expires_in]
               /\ UNCHANGED exit_code
    /\ UNCHANGED <<storeVars, relayVars, now, ticks, creds, run>>

\* save_creds() line 49: open(CREDS_PATH, "w") truncates the file.
SaveCredsOpen ==
    /\ rpc = "save_open"
    /\ store' = TruncatedFile
    /\ rpc' = "save_dump"
    /\ obs' = [obs EXCEPT !.writes = @ + 1]
    /\ UNCHANGED <<mode, latest, relayVars, now, ticks, creds, new_creds,
                   exit_code, run, issued>>

\* save_creds() line 50: json.dump fills the buffer; a JSON text longer than
\* the buffer is flushed in part before the file is closed.
SaveCredsFlush ==
    /\ rpc = "save_dump"
    /\ store = TruncatedFile
    /\ store' = PartialFile
    /\ UNCHANGED <<mode, latest, relayVars, now, ticks, refVars>>

\* save_creds() line 50, leaving the with block: the whole text is on disk.
SaveCredsClose ==
    /\ rpc = "save_dump"
    /\ store' = JsonFile(new_creds)
    /\ latest' = new_creds.access_token
    /\ rpc' = "save_chmod"
    /\ UNCHANGED <<mode, relayVars, now, ticks, creds, new_creds, exit_code, run,
                   issued, obs>>

\* save_creds() lines 52-53 and main() line 167: chmod 0600, normal exit.
SaveCredsChmod ==
    /\ rpc = "save_chmod"
    /\ mode' = "0600"
    /\ Exit(0)
    /\ UNCHANGED <<store, latest, relayVars, now, ticks, creds, new_creds,
                   run, issued, obs>>

\* time.time() advances between steps.
Tick(d) ==
    /\ ticks < MaxTicks
    /\ ticks' = ticks + 1
    /\ now' = now + d
    /\ UNCHANGED <<storeVars, refVars, relayVars>>

TickDeltas == {1, 3600000}

----------------------------------------------------------------------------
(* Vision Relay: reading the token (bot.py get_qwen_token, call_vision_api) *)

NumRequests == 2
Requests == 1 .. NumRequests

\* get_qwen_token() on the file it opens: the token, or the exception raised.
GetQwenToken(file) ==
    IF file.kind = "missing" THEN [exc |-> "FileNotFoundError", token |-> 0]
    ELSE IF file.kind # "json" THEN [exc |-> "JSONDecodeError", token |-> 0]
    ELSE IF file.creds.access_token = 0 THEN [exc |-> "ValueError", token |-> 0]
    ELSE [exc |-> "", token |-> file.creds.access_token]

\* call_vision_api() line 144 calls get_qwen_token() for each request: the
\* file as it is now is read, not the one main() read at startup.
StartupCreds(file, startup) == startup
CredsForRequest(file, startup) == file

IdleRead ==
    [pc |-> "idle", epoch |-> 0, seen |-> MissingFile, token |-> 0, exc |-> "",
     sent |-> 0]

\* get_qwen_token() lines 84-88: os.sync() and open().
VisionTokenBegin(r) ==
    /\ q[r].pc = "idle"
    /\ q' = [q EXCEPT ![r].pc = "open", ![r].epoch = latest]
    /\ UNCHANGED <<storeVars, refVars, now, ticks, boot, h, events>>

\* get_qwen_token() lines 89-102: json.load(f) and the access_token check,
\* then the headers dict of call_vision_api() lines 142-145.
VisionTokenRead(r) ==
    /\ q[r].pc = "open"
    /\ LET file == CredsForRequest(store, boot)
           got == GetQwenToken(file)
       IN q' = [q EXCEPT ![r].pc = IF got.exc = "" THEN "headers" ELSE "raised",
                         ![r].seen = store,
                         ![r].token = got.token,
                         ![r].exc = got.exc]
    /\ UNCHANGED <<storeVars, refVars, now, ticks, boot, h, events>>

\* call_vision_api() lines 147-152: the POST carrying the Authorization header.
VisionPost(r) ==
    /\ q[r].pc = "headers"
    /\ q' = [q EXCEPT ![r].pc = "posted", ![r].sent = q[r].token]
    /\ UNCHANGED <<storeVars, refVars, now, ticks, boot, h, events>>

----------------------------------------------------------------------------
(* Vision Relay: the vision endpoint's answers and Python's subscripts *)

\* A JSON value four levels deep along data["choices"][0]["message"]["content"]:
\* the type of each node, and whether the key or element subscripted exists.
Node(type, has) == [type |-> type, has |-> has]

Data(top, choices, first, message) ==
    [top |-> top, choices |-> choices, first |-> first, message |-> message]

AbsentNode == Node("absent", FALSE)

NonObjects == {"null", "number", "string", "list"}

\* Shapes of a 2xx JSON body.
Shapes ==
    {Data(Node(t, FALSE), AbsentNode, AbsentNode, AbsentNode) : t \in NonObjects}
    \cup {Data(Node("object", FALSE), AbsentNode, AbsentNode, AbsentNode)}
    \cup {Data(Node("object", TRUE), Node(t, FALSE), AbsentNode, AbsentNode) :
            t \in {"null", "number", "list", "object", "string"}}
    \cup {Data(Node("object", TRUE), Node("string", TRUE), Node("string", FALSE),
               AbsentNode)}
    \cup {Data(Node("object", TRUE), Node("list", TRUE), Node(t, FALSE), AbsentNode) :
            t \in NonObjects \cup {"object"}}
    \cup {Data(Node("object", TRUE), Node("list", TRUE), Node("object", TRUE),
               Node(t, FALSE)) : t \in NonObjects \cup {"object"}}
    \cup {Data(Node("object", TRUE), Node("list", TRUE), Node("object", TRUE),
               Node("object", TRUE))}

\* value["key"]: KeyError on an object without the key, TypeError on anything
\* that is not an object.
GetKey(node) ==
    IF node.type = "object" THEN (IF node.has THEN "" ELSE "KeyError")
    ELSE "TypeError"

\* value[0]: IndexError on an empty list or string, KeyError on an object
\* (JSON keys are strings), TypeError on null or a number.
GetIndex0(node) ==
    IF node.type \in {"list", "string"} THEN (IF node.has THEN "" ELSE "IndexError")
    ELSE IF node.type = "object" THEN "KeyError"
    ELSE "TypeError"

\* data["choices"][0]["message"]["content"]: the first exception raised.
Subscripts(data) ==
    IF GetKey(data.top) # "" THEN GetKey(data.top)
    ELSE IF GetIndex0(data.choices) # "" THEN GetIndex0(data.choices)
    ELSE IF GetKey(data.first) # "" THEN GetKey(data.first)
    ELSE GetKey(data.message)

\* call_vision_api() lines 158-162: except (KeyError, IndexError) raises
\* ValueError; any other exception leaves the function as it is.
ExtractText(data) ==
    LET e == Subscripts(data)
    IN IF e \in {"KeyError", "IndexError"} THEN "ValueError" ELSE e

TextLens == {0, 1, 4084, 4085, 8000, 8001, 10000}

\* A text of n characters, all different.
Text(n) == [i \in 1 .. n |-> i]

\* Statuses for which response.raise_for_status() raises: every non-2xx one.
VisionStatuses == {302, 401, 404, 418, 429, 500, 503}

Answer(transport, status_code, json, data, n) ==
    [transport |-> transport, status_code |-> status_code, json |-> json,
     data |-> data, n |-> n]

GoodData ==
    Data(Node("object", TRUE), Node("list", TRUE), Node("object", TRUE),
         Node("object", TRUE))

VisionAnswers ==
    {Answer(t, 0, FALSE, GoodData, 0) : t \in {"timeout", "connect_error"}}
    \cup {Answer("response", c, TRUE, GoodData, 0) : c \in VisionStatuses}
    \cup {Answer("response", 200, FALSE, GoodData, 0)}
    \cup {Answer("response", 200, TRUE, d, 1) : d \in Shapes \ {GoodData}}
    \cup {Answer("response", 200, TRUE, GoodData, n) : n \in TextLens}

\* call_vision_api() lines 147-164 for one answer: the exception raised, or "".
VisionOutcome(ans) ==
    IF ans.transport = "timeout" THEN "TimeoutException"
    ELSE IF ans.transport = "connect_error" THEN "ConnectError"
    ELSE IF ~(ans.status_code \in 200 .. 299) THEN "HTTPStatusError"
    ELSE IF ~ans.json THEN "JSONDecodeError"
    ELSE ExtractText(ans.data)

\* The classes an exception is an instance of.
Mro(exc) ==
    IF exc = "JSONDecodeError" THEN {"JSONDecodeError", "ValueError", "Exception"}
    ELSE IF exc = "FileNotFoundError" THEN {"FileNotFoundError", "OSError", "Exception"}
    ELSE {exc, "Exception"}

----------------------------------------------------------------------------
(* Vision Relay: the image handler (bot.py _process_image) *)

MaxEvents == 2
ReplyHeaderLen == 12
TelegramLimit == 4096
ChunkSize == 4000

Msg(kind, code, body, parse_mode) ==
    [kind |-> kind, code |-> code, body |-> body, parse_mode |-> parse_mode]

NoMsg == Msg("", 0, <<>>, "")
ProcessingMsg == Msg("processing", 0, <<>>, "")
WarningMsg == Msg("not_an_image", 0, <<>>, "")
NoticeMsg == Msg("split_notice", 0, <<>>, "Markdown")

\* f"📝 *Текст:*\n\n{result_text}": the header's characters are written 0.
Reply(result_text) == [i \in 1 .. ReplyHeaderLen |-> 0] \o result_text

Min(a, b) == IF a < b THEN a ELSE b

\* Python's s[a:b] for 0 <= a <= b.
SliceShort(s, a, b) == SubSeq(s, a + 1, Min(b, Len(s)) - 1)
Slice(s, a, b) == SubSeq(s, a + 1, Min(b, Len(s)))

\* The except clause of _process_image that takes an exception, in the order
\* the clauses are written, and the message it edits into the placeholder.
StatusFirstMessage(status_code) ==
    IF status_code >= 500 THEN Msg("unavailable", 0, <<>>, "")
    ELSE IF status_code >= 400 THEN Msg("server_error", status_code, <<>>, "")
    ELSE IF status_code = 401 THEN Msg("auth", 0, <<>>, "")
    ELSE Msg("rate_limit", 0, <<>>, "")
StatusMessage(status_code) ==
    IF status_code = 401 THEN Msg("auth", 0, <<>>, "")
    ELSE IF status_code = 429 THEN Msg("rate_limit", 0, <<>>, "")
    ELSE IF status_code >= 500 THEN Msg("unavailable", 0, <<>>, "")
    ELSE Msg("server_error", status_code, <<>>, "")

ErrorMessage(exc, status_code) ==
    IF "TimeoutException" \in Mro(exc) THEN Msg("timeout", 0, <<>>, "")
    ELSE IF "HTTPStatusError" \in Mro(exc) THEN StatusMessage(status_code)
    ELSE IF "ValueError" \in Mro(exc) THEN Msg("parse", 0, <<>>, "")
    ELSE Msg("unexpected", 0, <<>>, "")

IdleFrame ==
    [pc |-> "idle",
     event |-> "",              \* "photo" or "document"
     mime |-> "",               \* document.mime_type, "" for None
     placeholder |-> NoMsg,     \* what processing_msg shows
     calls |-> <<>>,            \* the Telegram calls made, in order
     vision_requests |-> 0,     \* POSTs to QWEN_API_URL
     token |-> 0,               \* the bearer token of the headers dict
     data |-> GoodData,         \* response.json() of a 2xx answer
     answered |-> "",           \* "", "2xx" or "error": how the POST ended
     exc |-> "",                \* the exception being handled
     origin |-> "",             \* the step that raised it
     status_code |-> 0,         \* exc.response.status_code
     got_text |-> FALSE,        \* call_vision_api returned
     result_text |-> <<>>,
     i |-> 0,                   \* loop variable of the chunk loop
     raised |-> ""]             \* the exception that left the handler

\* One Telegram call recorded in the frame.
Call(f, op, msg, ok) ==
    [f EXCEPT !.calls = Append(@, [op |-> op, msg |-> msg, ok |-> ok])]

Raise(f, exc, origin) == [f EXCEPT !.pc = "except", !.exc = exc, !.origin = origin]

\* _process_image line 254: the placeholder is sent outside the try block.
ProcessImage(f, ok) ==
    LET g == Call(f, "reply_text", ProcessingMsg, ok)
    IN IF ok THEN [g EXCEPT !.pc = "download", !.placeholder = ProcessingMsg]
       ELSE [g EXCEPT !.pc = "done", !.raised = "TelegramError"]

\* handle_photo.
HandlePhoto(ok) ==
    /\ h.pc \in {"idle", "done"}
    /\ events < MaxEvents
    /\ events' = events + 1
    /\ h' = ProcessImage([IdleFrame EXCEPT !.event = "photo"], ok)
    /\ UNCHANGED <<storeVars, refVars, now, ticks, boot, q>>

Mimes == {"", "application/pdf", "image/png"}

StartsWithImage(mime) == mime \in {"image/png"}

\* handle_document.
HandleDocument(mime, ok) ==
    /\ h.pc \in {"idle", "done"}
    /\ events < MaxEvents
    /\ events' = events + 1
    /\ LET f == [IdleFrame EXCEPT !.event = "document", !.mime = mime]
       IN IF mime = "" \/ ~StartsWithImage(mime)
          THEN h' = [Call(f, "reply_text", WarningMsg, ok) EXCEPT
                        !.pc = "done",
                        !.raised = IF ok THEN "" ELSE "TelegramError"]
          ELSE h' = ProcessImage(f, ok)
    /\ UNCHANGED <<storeVars, refVars, now, ticks, boot, q>>

\* _process_image line 258: download_and_encode.
DownloadAndEncode(ok) ==
    /\ h.pc = "download"
    /\ h' = IF ok THEN [h EXCEPT !.pc = "call_api"]
            ELSE Raise(h, "TelegramError", "download")
    /\ UNCHANGED <<storeVars, refVars, now, ticks, boot, q, events>>

\* call_vision_api() lines 142-145: the headers dict, with get_qwen_token().
CallVisionApiHeaders ==
    /\ h.pc = "call_api"
    /\ LET got == GetQwenToken(CredsForRequest(store, boot))
       IN h' = IF got.exc # "" THEN Raise(h, got.exc, "token")
               ELSE [h EXCEPT !.pc = "post", !.token = got.token]
    /\ UNCHANGED <<storeVars, refVars, now, ticks, boot, q, events>>

\* The frame once one POST was sent and answered.
Posted(f, ans) ==
    [f EXCEPT !.vision_requests = @ + 1,
              !.status_code = ans.status_code,
              !.data = ans.data,
              !.answered = IF ans.transport = "response"
                              /\ ans.status_code \in 200 .. 299
                              /\ ans.json
                           THEN "2xx" ELSE "error"]

\* call_vision_api() lines 147-164 seen from _process_image line 265: the
\* text is returned, or the exception reaches the except clauses.
AfterPostRetrying(f, ans) ==
    IF VisionOutcome(ans) = "TimeoutException" THEN Posted(f, ans)
    ELSE IF VisionOutcome(ans) # "" THEN Raise(Posted(f, ans), VisionOutcome(ans), "vision")
    ELSE [Posted(f, ans) EXCEPT !.pc = "reply", !.got_text = TRUE,
                                !.result_text = Text(ans.n)]
AfterPost(f, ans) ==
    IF VisionOutcome(ans) # "" THEN Raise(Posted(f, ans), VisionOutcome(ans), "vision")
    ELSE [Posted(f, ans) EXCEPT !.pc = "reply", !.got_text = TRUE,
                                !.result_text = Text(ans.n)]

\* call_vision_api() lines 147-164: the POST and what is made of its answer.
CallVisionApiPost(ans) ==
    /\ h.pc = "post"
    /\ h' = AfterPost(h, ans)
    /\ UNCHANGED <<storeVars, refVars, now, ticks, boot, q, events>>

\* _process_image lines 268-278: the result, or the notice before the chunks.
SendReply(ok) ==
    /\ h.pc = "reply"
    /\ LET reply == Reply(h.result_text)
           msg == IF Len(reply) <= TelegramLimit
                  THEN Msg("result", 0, reply, "Markdown")
                  ELSE NoticeMsg
           f == Call(h, "edit_text", msg, ok)
       IN h' = IF ~ok THEN Raise(f, "TelegramError", "reply")
               ELSE [f EXCEPT !.placeholder = msg,
                              !.pc = IF msg = NoticeMsg THEN "chunks" ELSE "done"]
    /\ UNCHANGED <<storeVars, refVars, now, ticks, boot, q, events>>

\* _process_image lines 279-281: one turn of the loop over
\* range(0, len(result_text), 4000).
SendChunk(ok) ==
    /\ h.pc = "chunks"
    /\ LET chunk == Slice(h.result_text, h.i, h.i + ChunkSize)
           f == Call(h, "reply_text", Msg("chunk", 0, chunk, ""), ok)
       IN h' = IF ~ok THEN Raise(f, "TelegramError", "chunk")
               ELSE [f EXCEPT !.i = h.i + ChunkSize,
                              !.pc = IF h.i + ChunkSize < Len(h.result_text)
                                     THEN "chunks" ELSE "done"]
    /\ UNCHANGED <<storeVars, refVars, now, ticks, boot, q, events>>

\* _process_image lines 283-315: the except clause taken edits the placeholder;
\* an exception of that edit_text leaves the handler.
HandleException(ok) ==
    /\ h.pc = "except"
    /\ LET msg == ErrorMessage(h.exc, h.status_code)
           f == Call(h, "edit_text", msg, ok)
       IN h' = IF ok THEN [f EXCEPT !.pc = "done", !.placeholder = msg]
               ELSE [f EXCEPT !.pc = "done", !.raised = "TelegramError"]
    /\ UNCHANGED <<storeVars, refVars, now, ticks, boot, q, events>>

----------------------------------------------------------------------------
(* Initial states and specifications *)

ValidCreds(tok, rt, e) ==
    [access_token |-> tok, token_type |-> "Bearer", refresh_token |-> rt,
     resource_url |-> "portal.qwen.ai", expiry_date |-> e]

InitWith(files, startups) ==
    /\ store \in files
    /\ boot \in startups
    /\ mode = "0644"
    /\ latest = store.creds.access_token
    /\ now = Now0
    /\ ticks = 0
    /\ rpc = "idle"
    /\ creds = NoCreds
    /\ new_creds = NoCreds
    /\ exit_code = 0
    /\ run = 0
    /\ issued = 1
    /\ obs = InitObs
    /\ q = [r \in Requests |-> IdleRead]
    /\ h = IdleFrame
    /\ events = 0

\* The Token Refresher run by cron against a store an earlier login wrote.
InitialExpiry ==
    {0, Now0 - 1000, Now0 + 7199999, Now0 + 7200000, Now0 + 7200001,
     Now0 + 10000000}

InitialStores ==
    {MissingFile, GarbageFile}
    \cup {JsonFile(ValidCreds(1, rt, e)) : rt \in {0, 1}, e \in InitialExpiry}

InitRefresher == InitWith(InitialStores, {MissingFile})

NextRefresher ==
    \/ RefresherMain
    \/ RefresherRequest
    \/ \E resp \in Responses(issued + 1) : RefresherResponse(resp)
    \/ SaveCredsOpen
    \/ SaveCredsFlush
    \/ SaveCredsClose
    \/ SaveCredsChmod
    \/ \E d \in TickDeltas : Tick(d)

SpecRefresher == InitRefresher /\ [][NextRefresher]_vars

\* The Relay's token reads running beside the Token Refresher.
SharedStore == JsonFile(ValidCreds(1, 1, Now0 - 1000))

SharedResponses(tok) ==
    {resp \in Responses(tok) :
        \/ resp.transport = "http_error" /\ resp.code = 401
        \/ /\ resp.raw = "object"
           /\ resp.keys = BodyKeys
           /\ resp.status = "success"
           /\ resp.expires_in = 3600}

InitStore == InitWith({SharedStore}, {SharedStore})

NextStore ==
    \/ RefresherMain
    \/ RefresherRequest
    \/ \E resp \in SharedResponses(issued + 1) : RefresherResponse(resp)
    \/ SaveCredsOpen
    \/ SaveCredsFlush
    \/ SaveCredsClose
    \/ SaveCredsChmod
    \/ \E r \in Requests : VisionTokenBegin(r)
    \/ \E r \in Requests : VisionTokenRead(r)
    \/ \E r \in Requests : VisionPost(r)

SpecStore == InitStore /\ [][NextStore]_vars

\* The Relay's image handler, whatever the store holds when the event arrives.
RelayStores ==
    {MissingFile, GarbageFile, TruncatedFile, JsonFile(ValidCreds(0, 1, Now0)),
     JsonFile(ValidCreds(1, 1, Now0))}

InitRelay == InitWith(RelayStores, {JsonFile(ValidCreds(1, 1, Now0))})

NextRelay ==
    \/ \E ok \in BOOLEAN : HandlePhoto(ok)
    \/ \E mime \in Mimes, ok \in BOOLEAN : HandleDocument(mime, ok)
    \/ \E ok \in BOOLEAN : DownloadAndEncode(ok)
    \/ CallVisionApiHeaders
    \/ \E ans \in VisionAnswers : CallVisionApiPost(ans)
    \/ \E ok \in BOOLEAN : SendReply(ok)
    \/ \E ok \in BOOLEAN : SendChunk(ok)
    \/ \E ok \in BOOLEAN : HandleException(ok)

SpecRelay == InitRelay /\ [][NextRelay]_vars

----------------------------------------------------------------------------
(* Properties of the Token Refresher, under SpecRefresher *)

\* The failures of a token request, told from the answer alone.
FailedResponse(resp) ==
    \/ resp.transport \in {"http_error", "url_error"}
    \/ resp.content_type = "text/html"
    \/ resp.raw \in {"empty", "garbage", "list"}
    \/ ~("status" \in resp.keys /\ resp.status = "success")
    \/ \E k \in {"access_token", "refresh_token", "expires_in"} : k \notin resp.keys

\* The invocation has ended on one of the failures.
EndedInFailure ==
    /\ rpc = "exited"
    /\ \/ obs.check = "none"
       \/ obs.check = "stale" /\ creds.refresh_token = 0
       \/ obs.requests > 0 /\ FailedResponse(obs.response)

\* C1: an invocation of the Token Refresher that ends in a failure (store
\* absent or unparsable, refresh_token missing, HTTP error, network error,
\* HTML, empty body, malformed JSON, status other than "success", a success
\* body lacking access_token, refresh_token or expires_in) exits non-zero
\* with the store exactly as it was when the invocation began, and the store
\* is opened for writing only after a validated successful response.
C1_FailureLeavesStore ==
    /\ EndedInFailure =>
          exit_code # 0 /\ store = obs.store0 /\ obs.writes = 0
    /\ obs.writes > 0 => obs.requests = 1 /\ ~FailedResponse(obs.response)

C1_Witness ==
    /\ rpc = "exited"
    /\ exit_code = 1
    /\ obs.requests = 1
    /\ obs.response.status = "success"
    /\ "expires_in" \notin obs.response.keys
    /\ store = obs.store0

C8_Idempotent ==
    obs.immediate => obs.requests = 0 /\ obs.writes = 0 /\ store = obs.store0

\* C8, amended: the same, for an expires_in greater than 7200 seconds (or when
\* the first invocation found the token fresh and wrote nothing).
C8_IdempotentAboveThreshold ==
    (obs.immediate /\ (obs.prev_wrote => obs.prev_expires_in > 7200)) =>
        /\ obs.requests = 0 /\ obs.writes = 0 /\ store = obs.store0
        /\ rpc = "exited" /\ exit_code = 0

C8_Witness ==
    /\ obs.immediate
    /\ obs.prev_wrote
    /\ obs.prev_expires_in = 7201
    /\ rpc = "exited"
    /\ obs.check = "fresh"

----------------------------------------------------------------------------
(* Properties of the shared store, under SpecStore *)

HasRead(r) == q[r].pc \in {"headers", "raised", "posted"}

\* C2: a read of the store by get_qwen_token that interleaves with save_creds
\* observes a complete credential, the one before or the one after the
\* refresh, never a truncated, empty or incomplete file.
C2_ReaderSeesCompleteFile ==
    \A r \in Requests :
        HasRead(r) => q[r].seen.kind = "json" /\ q[r].seen.creds.access_token >= 1

\* A posted request carries the token of the file its own read found, and
\* none older than the last one written completely before that read began.
C10_Carried ==
    \A r \in Requests :
        q[r].pc = "posted" =>
            /\ q[r].seen.kind = "json"
            /\ q[r].sent = q[r].seen.creds.access_token
            /\ q[r].sent >= q[r].epoch

\* C10: every vision request carries the access_token read from the store
\* during that same request; a request whose read began after a write of the
\* Refresher was complete never carries a token older than the one written;
\* and no step of the Relay changes the store.
C10_FreshToken ==
    /\ []C10_Carried
    /\ [][q' # q => store' = store /\ mode' = mode]_vars

C10_Witness ==
    \E r \in Requests :
        /\ q[r].pc = "posted"
        /\ q[r].epoch = 2
        /\ q[r].sent = 2
        /\ boot.creds.access_token = 1

----------------------------------------------------------------------------
(* Properties of the image handler, under SpecRelay *)

ValidImage == h.event = "photo" \/ (h.event = "document" /\ h.mime = "image/png")

ErrorKinds ==
    {"timeout", "auth", "rate_limit", "unavailable", "server_error", "parse",
     "unexpected"}

\* The calls that make up the reply: everything after the placeholder.
ReplyCalls == IF Len(h.calls) = 0 THEN <<>> ELSE Tail(h.calls)

IsChunk(c) == c.msg.kind = "chunk"
IsFinal(c) == c.op = "edit_text" /\ c.ok
IsError(c) == c.op = "edit_text" /\ c.msg.kind \in ErrorKinds

ChunkCalls == SelectSeq(ReplyCalls, IsChunk)

RECURSIVE Flatten(_)
Flatten(ss) == IF ss = <<>> THEN <<>> ELSE Head(ss).msg.body \o Flatten(Tail(ss))

C6_NothingEscapes ==
    (ValidImage /\ h.pc = "done") =>
        /\ h.raised = ""
        /\ Len(SelectSeq(ReplyCalls, IsFinal)) >= 1

\* C7: a vision answer with a non-2xx status makes the handler edit exactly
\* one message, chosen by the status: 401 authorization, 429 rate limit, 500
\* and above server unavailable, any other the server error with its code.
C7_StatusMessages ==
    (h.pc = "done" /\ h.vision_requests = 1 /\ h.status_code # 0
        /\ h.status_code \notin 200 .. 299) =>
        /\ Len(ReplyCalls) = 1
        /\ ReplyCalls[1].op = "edit_text"
        /\ LET m == ReplyCalls[1].msg
               c == h.status_code
           IN /\ c = 401 => m.kind = "auth"
              /\ c = 429 => m.kind = "rate_limit"
              /\ c >= 500 => m.kind = "unavailable"
              /\ (c < 500 /\ c # 401 /\ c # 429) =>
                    m.kind = "server_error" /\ m.code = c

C7_Witness ==
    /\ h.pc = "done"
    /\ h.status_code = 418
    /\ h.placeholder.kind = "server_error"
    /\ h.placeholder.code = 418

\* The shape call_vision_api expects of a 2xx body.
ExpectedShape(data) ==
    /\ data.top = Node("object", TRUE)
    /\ data.choices = Node("list", TRUE)
    /\ data.first = Node("object", TRUE)
    /\ data.message = Node("object", TRUE)

\* C9: a 2xx answer of an unexpected shape ends in the "could not process
\* server response" message and not in the unexpected-error one, and that
\* message is edited only for failures of the response, not of the store read.
C9_ParseMessage ==
    (h.pc = "done" /\ Len(ReplyCalls) >= 1) =>
        LET m == ReplyCalls[Len(ReplyCalls)].msg
        IN /\ (h.answered = "2xx" /\ ~ExpectedShape(h.data)) => m.kind = "parse"
           /\ m.kind = "parse" => h.origin = "vision"

====
